---- MODULE Spec2Model ----
(***************************************************************************)
(* TLA+ model of lib/prom/prom.go (vegeta's Prometheus observer).          *)
(*                                                                         *)
(* The model follows the source statement by statement:                    *)
(*   NewPrometheusMetricsWithParams  (prom.go:42-119)                      *)
(*   the goroutine running pm.srv.ListenAndServe (prom.go:114-116)         *)
(*   PrometheusMetrics.Close         (prom.go:123-129)                     *)
(*   PrometheusMetrics.Observe       (prom.go:132-140)                     *)
(* and an HTTP GET of the exposition endpoint as the tests issue it.       *)
(*                                                                         *)
(* Library behaviour the source relies on, as the model states it:         *)
(*  - promauto.NewCounterVec registers the new vector with the process-    *)
(*    wide prometheus.DefaultRegisterer through MustRegister, which panics *)
(*    when a collector with the same descriptor is already registered.     *)
(*  - prometheus.Unregister(c) removes from the default registry whatever  *)
(*    collector has c's descriptor id (fully qualified name + label        *)
(*    names); it returns false, and changes nothing, when there is none.   *)
(*  - CounterVec.WithLabelValues gets or creates the child series; a       *)
(*    created counter child starts at 0.  Counter.Add and                  *)
(*    Histogram.Observe are atomic.                                        *)
(*  - http.Server.ListenAndServe returns ErrServerClosed when the server   *)
(*    is already shutting down, else calls net.Listen and then Serve,      *)
(*    which closes the listener and returns when the server started        *)
(*    shutting down in between.                                            *)
(*  - http.Server.Shutdown sets the shutting-down flag and closes the      *)
(*    listeners Serve has tracked so far; it then waits until no           *)
(*    connection has a request in flight, or its context is done.          *)
(*  - WithLabelValues panics when a label value is not valid UTF-8.        *)
(*  - regexp matches leftmost, its operators are greedy and "." does not   *)
(*    match a newline; strconv.Atoi fails on a number above the largest    *)
(*    int.                                                                 *)
(***************************************************************************)
EXTENDS Integers, Sequences, FiniteSets, TLC

\* ------------------------------------------------------------------ bounds
NCallers == 2       \* threads of the embedding program that call the API
MaxInst == 3        \* constructions attempted in one behaviour
MaxClose == 2       \* Close calls on one handle
MaxObs == 3         \* Observe calls in one behaviour
MaxConn == 1        \* client connections with a request in flight, per instance
MaxURLLen == 4      \* characters of a bindURL argument

Callers == 1..NCallers
Insts == 1..MaxInst

\* ------------------------------------------------------- program constants
\* NewPrometheusMetrics' bind address (prom.go:29): the address the server
\* gets, and the bindURL argument it is parsed from, character by character.
DefaultAddr == "0.0.0.0:8880"
Addrs == {DefaultAddr}
DefaultURL == <<"0", ".", "0", ".", "0", ".", "0", ":", "8", "8", "8", "0">>
BindURLs == {DefaultURL}

\* The number of matches the parse asks for (prom.go:46).
FindAllLimit == 3

\* Instrument names (prom.go:68, 79, 89, 99).
request_seconds == "request_seconds"
request_bytes_in == "request_bytes_in"
request_bytes_out == "request_bytes_out"
request_fail_count == "request_fail_count"

\* Histogram bucket upper bounds (prom.go:70), in milliseconds.
Buckets == <<100, 200, 500, 1000, 2000, 5000, 10000, 20000, 50000>>

\* The vegeta.Result values the producers hand to Observe, by name.
\* Latency is in milliseconds.  Success and Failure are the two records of
\* TestPromServerObserve; Slow shares Success's label tuple and exceeds
\* every bucket bound.
Rec(m, u, c, e, l, bi, bo) ==
    [Method |-> m, URL |-> u, Code |-> c, Error |-> e, Latency |-> l,
     BytesIn |-> bi, BytesOut |-> bo]
Success == "success"
Failure == "failure"
Slow == "slow"
Records == {Success, Failure, Slow}
\* Records that differ from Success in the method, in the URL, and in the
\* code and error (a request that got no response has code 0).
Post == "post"
OtherURL == "other_url"
Refused == "refused"
MoreRecords == {Post, OtherURL, Refused}
ValidRecords == Records \cup MoreRecords
\* Records one of whose strings is not valid UTF-8: the URL of a target, and
\* the text of an error.  <ff> stands for the byte 0xff.
GarbledURL == "garbled_url"
GarbledError == "garbled_error"
GarbledRecords == {GarbledURL, GarbledError}
AllRecords == ValidRecords \cup GarbledRecords
InvalidUTF8 == {"/<ff>", "bad <ff>"}
Result ==
    [n \in AllRecords |->
        CASE n = Success -> Rec("GET", "/x", 200, "", 100, 1000, 50)
          [] n = Failure -> Rec("GET", "/x", 500, "REQUEST FAILED", 100, 1000, 50)
          [] n = Slow -> Rec("GET", "/x", 200, "", 60000, 20, 3)
          [] n = Post -> Rec("POST", "/x", 200, "", 100, 1000, 50)
          [] n = OtherURL -> Rec("GET", "/y", 200, "", 100, 1000, 50)
          [] n = Refused -> Rec("GET", "/x", 0, "connection refused", 100, 0, 0)
          [] n = GarbledURL -> Rec("GET", "/<ff>", 200, "", 100, 1000, 50)
          [] n = GarbledError -> Rec("GET", "/x", 0, "bad <ff>", 100, 0, 0)]
NoRec == "none"

VARIABLES
    defaultRegistry,          \* names registered in prometheus.DefaultRegisterer
    newPc,                    \* per instance: where its construction stands
    bindAddr,                 \* per instance: pm.srv.Addr
    registry,                 \* per instance: names registered in pm.registry
    inShutdown,               \* per instance: pm.srv's shutting-down flag
    serve,                    \* per instance: where the serving goroutine stands
    requestBytesInCounter,    \* per instance: label tuple -> value
    requestBytesOutCounter,   \* per instance: label tuple -> value
    requestSecondsHistogram,  \* per instance: label tuple -> histogram child
    requestFailCounter,       \* per instance: label tuple -> value
    call,                     \* per caller: the API call it is executing
    closeCalls,               \* per instance: Close calls started
    closeReturned,            \* per instance: Close calls returned
    observed,                 \* per instance: record -> Observe calls returned
    nObs,                     \* Observe calls started
    lastScrape,               \* the response to the latest HTTP GET
    extHeld,                  \* addresses another process listens on
    bindURL,                  \* per instance: the bindURL it was constructed with
    active,                   \* per instance: connections with a request in flight
    unregFailed,              \* per caller: an Unregister of its Close returned false
    closeResult               \* per instance: what the latest Close returned

vars == <<defaultRegistry, newPc, bindAddr, registry, inShutdown, serve,
          requestBytesInCounter, requestBytesOutCounter,
          requestSecondsHistogram, requestFailCounter, call, closeCalls,
          closeReturned, observed, nObs, lastScrape, extHeld, bindURL, active,
          unregFailed, closeResult>>

metricVars == <<requestBytesInCounter, requestBytesOutCounter,
                requestSecondsHistogram, requestFailCounter>>
serverVars == <<bindAddr, inShutdown, serve>>
ghostVars == <<closeCalls, closeReturned, observed, nObs>>
scrapeVars == <<lastScrape>>
closeVars == <<unregFailed, closeResult>>
auxVars == <<bindURL, active, closeVars>>

\* ------------------------------------------------------------ pure helpers
\* strconv.FormatUint(n, 10) (prom.go:133).
Digit(d) == <<"0", "1", "2", "3", "4", "5", "6", "7", "8", "9">>[d + 1]
\* A faulty conversion, for mutation testing: it keeps the last digit only.
FormatUintLastDigit(n) == Digit(n % 10)
RECURSIVE FormatUint(_)
FormatUint(n) ==
    IF n < 10 THEN Digit(n) ELSE FormatUint(n \div 10) \o Digit(n % 10)

\* ------------------------------------------- parsing bindURL (prom.go:45-61)
\* A string is a sequence of one-character strings; Str is the Go string.
RECURSIVE Str(_)
Str(s) == IF s = <<>> THEN "" ELSE Head(s) \o Str(Tail(s))
IsDigit(ch) == ch \in {"0", "1", "2", "3", "4", "5", "6", "7", "8", "9"}

\* The match of (.+):([0-9]+) that starts at position s of u, as the regexp
\* package prefers it: .+ is greedy and does not match a newline, so the
\* colon is the last one that is followed by a digit and has no newline
\* between s and itself; [0-9]+ then takes every digit that follows.
RECURSIVE DigitsEnd(_, _)
DigitsEnd(u, k) ==
    IF k < Len(u) /\ IsDigit(u[k + 1]) THEN DigitsEnd(u, k + 1) ELSE k
Colons(u, s) ==
    { k \in (s + 1)..(Len(u) - 1) :
          /\ u[k] = ":" /\ IsDigit(u[k + 1])
          /\ \A m \in s..(k - 1) : u[m] # "\n" }
MatchAt(u, s) ==
    LET k == CHOOSE x \in Colons(u, s) : \A y \in Colons(u, s) : y <= x
        e == DigitsEnd(u, k + 1)
    IN [host |-> SubSeq(u, s, k - 1), port |-> SubSeq(u, k + 1, e), end |-> e]

\* re.FindAllStringSubmatch(u, n), from position pos on: the leftmost match,
\* then the matches of the rest of the string, n at most.
RECURSIVE FindAllFrom(_, _, _)
FindAllFrom(u, pos, n) ==
    LET starts == { s \in pos..Len(u) : Colons(u, s) # {} } IN
    IF n = 0 \/ starts = {} THEN <<>>
    ELSE LET m == MatchAt(u, CHOOSE s \in starts : \A x \in starts : s <= x)
         IN <<m>> \o FindAllFrom(u, m.end + 1, n - 1)
FindAllStringSubmatch(u, n) == FindAllFrom(u, 1, n)

\* strconv.Atoi of a string of digits: the number, kept as its digits
\* without leading zeros, or a range error when it exceeds the largest int.
MaxInt ==
    <<"9", "2", "2", "3", "3", "7", "2", "0", "3", "6", "8", "5", "4", "7", "7",
      "5", "8", "0", "7">>
RECURSIVE StripZeros(_)
StripZeros(ds) ==
    IF Len(ds) > 1 /\ Head(ds) = "0" THEN StripZeros(Tail(ds)) ELSE ds
\* Of two digit strings of one length, the first is at most the second: the
\* digits "0" to "9" are ordered as the strings of length one they are.
DigitValue(ch) == CHOOSE d \in 0..9 : Digit(d) = ch
RECURSIVE DigitsLeq(_, _)
DigitsLeq(a, b) ==
    IF a = <<>> THEN TRUE
    ELSE IF Head(a) # Head(b) THEN DigitValue(Head(a)) < DigitValue(Head(b))
    ELSE DigitsLeq(Tail(a), Tail(b))
AtMost(ds, limit) ==
    LET n == StripZeros(ds)
    IN Len(n) < Len(limit) \/ (Len(n) = Len(limit) /\ DigitsLeq(n, limit))
Atoi(ds) ==
    IF AtMost(ds, MaxInt) THEN [err |-> FALSE, n |-> StripZeros(ds)]
    ELSE [err |-> TRUE, n |-> <<"0">>]

\* prom.go:45-61 and the fmt.Sprintf("%s:%d", bindHost, bindPort) of
\* prom.go:110: the error returned, or the server's address.  A match of
\* this expression always has its three submatches, and its host is never
\* empty, so bindHost is empty exactly when the number of matches is not 1.
ParseBindURL(u) ==
    LET rr == FindAllStringSubmatch(u, FindAllLimit) IN
    IF Len(rr) = 1
    THEN LET port == Atoi(rr[1].port)
         IN IF port.err THEN [err |-> "range", addr |-> ""]
            ELSE [err |-> "", addr |-> Str(rr[1].host) \o ":" \o Str(port.n)]
    ELSE [err |-> "invalid", addr |-> ""]

\* The label values Observe passes to the three (method, url, status)
\* vectors (prom.go:133-136) and to the failure counter (prom.go:138).
StatusLabels(r) == <<Result[r].Method, Result[r].URL, FormatUint(Result[r].Code)>>
FailLabels(r) == <<Result[r].Method, Result[r].URL, Result[r].Error>>

\* utf8.ValidString, and the check WithLabelValues makes of its label values
\* (client_golang's validateLabelValues): the number of values always matches
\* here, and each value must be valid UTF-8.  WithLabelValues panics when the
\* check fails.
ValidString(s) == s \notin InvalidUTF8
ValidLabelValues(lvs) == \A k \in 1..Len(lvs) : ValidString(lvs[k])

\* A vector with no child series.
EmptyVec == [t \in {} |-> 0]

\* CounterVec.WithLabelValues(lvs...): the child is created, at 0, on first
\* use; the vector is otherwise unchanged.
WithLabelValues(vec, lvs) ==
    IF lvs \in DOMAIN vec THEN vec ELSE (lvs :> 0) @@ vec

\* A faulty Add, for mutation testing: it stores v instead of adding it, as
\* an update that lost the earlier ones would.
CounterAddLost(vec, lvs, v) == (lvs :> v) @@ vec
\* CounterVec.WithLabelValues(lvs...).Add(v) (prom.go:134, 135).
CounterAdd(vec, lvs, v) ==
    LET w == WithLabelValues(vec, lvs) IN [w EXCEPT ![lvs] = @ + v]

\* A histogram child as client_golang keeps it: one count per bucket (not
\* cumulative), the number of observations and their sum.
NewHistogram ==
    [counts |-> [b \in 1..Len(Buckets) |-> 0], count |-> 0, sum |-> 0]

\* sort.SearchFloat64s(upperBounds, v): the first bucket whose upper bound
\* is >= v, or Len(Buckets) + 1 when v exceeds every bound.
RECURSIVE SearchFrom(_, _)
SearchFrom(v, b) ==
    IF b > Len(Buckets) \/ Buckets[b] >= v THEN b ELSE SearchFrom(v, b + 1)
FindBucket(v) == SearchFrom(v, 1)

\* A faulty Observe, for mutation testing: it drops a value that exceeds
\* every bound.
HistogramChildObserveDropOverflow(h, v) ==
    LET b == FindBucket(v) IN
    IF b <= Len(Buckets)
    THEN [counts |-> [h.counts EXCEPT ![b] = @ + 1],
          count |-> h.count + 1, sum |-> h.sum + v]
    ELSE h
\* histogram.Observe(v): the bucket found gets one more observation (none
\* when v exceeds every bound), and count and sum always move.
HistogramChildObserve(h, v) ==
    LET b == FindBucket(v) IN
    [counts |-> IF b <= Len(Buckets)
                THEN [h.counts EXCEPT ![b] = @ + 1] ELSE h.counts,
     count |-> h.count + 1,
     sum |-> h.sum + v]

\* HistogramVec.WithLabelValues(lvs...).Observe(v) (prom.go:136).
HistogramObserve(vec, lvs, v) ==
    LET w == IF lvs \in DOMAIN vec THEN vec ELSE (lvs :> NewHistogram) @@ vec
    IN [w EXCEPT ![lvs] = HistogramChildObserve(@, v)]

\* histogram.Write: the exposition shows cumulative bucket counts, and the
\* +Inf bucket is the observation count.
RECURSIVE CumulativeCount(_, _)
CumulativeCount(h, b) ==
    IF b = 0 THEN 0 ELSE CumulativeCount(h, b - 1) + h.counts[b]
HistogramWrite(h) ==
    [buckets |-> [b \in 1..Len(Buckets) |-> CumulativeCount(h, b)],
     inf |-> h.count, count |-> h.count, sum |-> h.sum]

\* promhttp.HandlerFor(pm.registry, ...) (prom.go:111): the response body is
\* the Gather of pm.registry: every registered vector, with its series; a
\* vector without series contributes no metric family.
Family(i, name, vec) ==
    IF name \in registry[i] THEN vec ELSE EmptyVec
Render(i) ==
    [request_seconds |->
         LET v == Family(i, request_seconds, requestSecondsHistogram[i])
         IN [t \in DOMAIN v |-> HistogramWrite(v[t])],
     request_bytes_in |->
         Family(i, request_bytes_in, requestBytesInCounter[i]),
     request_bytes_out |->
         Family(i, request_bytes_out, requestBytesOutCounter[i]),
     request_fail_count |->
         Family(i, request_fail_count, requestFailCounter[i])]
NoBody ==
    [request_seconds |-> EmptyVec, request_bytes_in |-> EmptyVec,
     request_bytes_out |-> EmptyVec, request_fail_count |-> EmptyVec]
\* The metric families whose name appears in a response body.
FamiliesIn(body) ==
    { n \in {request_seconds, request_bytes_in, request_bytes_out,
             request_fail_count} : DOMAIN body[n] # {} }

\* ------------------------------------------------------------------- state
Idle == [op |-> "idle", inst |-> 0, pc |-> "", rec |-> NoRec, again |-> FALSE]
InCall(o, i, p, r, a) == [op |-> o, inst |-> i, pc |-> p, rec |-> r, again |-> a]
\* A caller whose Observe call on instance i, of record r, ended in a panic:
\* Observe recovers from none, so the panic unwinds the caller's goroutine.
Panicked(i, r) == InCall("Panicked", i, "", r, FALSE)

NoResponse == [status |-> 0, inst |-> 0, body |-> NoBody]
\* What a Close call returned: its error, and beside it whether one of the
\* prometheus.Unregister calls it made returned false.
NoResult == [err |-> "none", failed |-> FALSE]
Returned(e, f) == [err |-> e, failed |-> f]

\* The process starts with nothing constructed.  Another process may be
\* listening on the address already.
Init ==
    /\ defaultRegistry = {}
    /\ newPc = [i \in Insts |-> "none"]
    /\ bindAddr = [i \in Insts |-> ""]
    /\ registry = [i \in Insts |-> {}]
    /\ inShutdown = [i \in Insts |-> FALSE]
    /\ serve = [i \in Insts |-> "none"]
    /\ requestBytesInCounter = [i \in Insts |-> EmptyVec]
    /\ requestBytesOutCounter = [i \in Insts |-> EmptyVec]
    /\ requestSecondsHistogram = [i \in Insts |-> EmptyVec]
    /\ requestFailCounter = [i \in Insts |-> EmptyVec]
    /\ call = [c \in Callers |-> Idle]
    /\ closeCalls = [i \in Insts |-> 0]
    /\ closeReturned = [i \in Insts |-> 0]
    /\ observed = [i \in Insts |-> [r \in AllRecords |-> 0]]
    /\ nObs = 0
    /\ lastScrape = NoResponse
    /\ extHeld \in SUBSET Addrs
    /\ bindURL = [i \in Insts |-> <<>>]
    /\ active = [i \in Insts |-> 0]
    /\ unregFailed = [c \in Callers |-> FALSE]
    /\ closeResult = [i \in Insts |-> NoResult]

\* An address is taken while a listening socket is open on it: another
\* process's, or the one a serving goroutine got from net.Listen and has not
\* closed yet.
Listening(i) == serve[i] \in {"bound", "serving"}
Held(a) ==
    \/ a \in extHeld
    \/ \E j \in Insts : bindAddr[j] = a /\ Listening(j)

\* ------------------------------------------- NewPrometheusMetricsWithParams
\* promauto.NewCounterVec(name ...) followed by pm.registry.MustRegister,
\* for an instance whose own registry holds reg: the promauto call panics
\* when the name is taken in the default registry, and the panic ends the
\* construction, leaving what was registered so far.
Promauto(c, i, reg, name, next) ==
    IF name \in defaultRegistry
    THEN /\ newPc' = [newPc EXCEPT ![i] = "panic"]
         /\ call' = [call EXCEPT ![c] = Idle]
         /\ registry' = [registry EXCEPT ![i] = reg]
         /\ UNCHANGED defaultRegistry
    ELSE /\ defaultRegistry' = defaultRegistry \cup {name}
         /\ registry' = [registry EXCEPT ![i] = reg \cup {name}]
         /\ newPc' = [newPc EXCEPT ![i] = next]
         /\ call' = [call EXCEPT ![c] = InCall("New", i, next, NoRec, FALSE)]

\* prom.go:42-86, called with bindURL u: the argument is parsed, and the
\* call returns (nil, err) when the parse fails; else the instance and its
\* registry are created, the histogram is registered in pm.registry, and
\* request_bytes_in is created through promauto.  Instance i is the next
\* one the process constructs.
NewRegisterBytesIn(c, i, u) ==
    /\ call[c] = Idle
    /\ newPc[i] = "none"
    /\ \A j \in Insts : j < i => newPc[j] # "none"
    /\ bindURL' = [bindURL EXCEPT ![i] = u]
    /\ LET parsed == ParseBindURL(u) IN
       IF parsed.err # ""
       THEN /\ newPc' = [newPc EXCEPT ![i] = "error"]
            /\ UNCHANGED <<defaultRegistry, registry, bindAddr, call>>
       ELSE /\ bindAddr' = [bindAddr EXCEPT ![i] = parsed.addr]
            /\ Promauto(c, i, {request_seconds}, request_bytes_in, "bytes_out")
    /\ UNCHANGED <<inShutdown, serve, metricVars, ghostVars, scrapeVars, extHeld,
                   active, closeVars>>

\* prom.go:88-96.
NewRegisterBytesOut(c) ==
    /\ call[c].op = "New" /\ call[c].pc = "bytes_out"
    /\ Promauto(c, call[c].inst, registry[call[c].inst], request_bytes_out, "fail")
    /\ UNCHANGED <<serverVars, metricVars, ghostVars, scrapeVars, extHeld, auxVars>>

\* prom.go:98-106.
NewRegisterFail(c) ==
    /\ call[c].op = "New" /\ call[c].pc = "fail"
    /\ Promauto(c, call[c].inst, registry[call[c].inst], request_fail_count, "srv")
    /\ UNCHANGED <<serverVars, metricVars, ghostVars, scrapeVars, extHeld, auxVars>>

\* prom.go:108-118: the server value is set up, the goroutine that will run
\* ListenAndServe is started, and (pm, nil) is returned at once.
NewServe(c) ==
    /\ call[c].op = "New" /\ call[c].pc = "srv"
    /\ serve' = [serve EXCEPT ![call[c].inst] = "scheduled"]
    /\ newPc' = [newPc EXCEPT ![call[c].inst] = "ok"]
    /\ call' = [call EXCEPT ![c] = Idle]
    /\ UNCHANGED <<defaultRegistry, registry, bindAddr, inShutdown, metricVars,
                   ghostVars, scrapeVars, extHeld, auxVars>>

\* ------------------------------------ go func() { pm.srv.ListenAndServe() }
\* ListenAndServe's entry: a server already shutting down returns
\* ErrServerClosed without listening.
ServeCheck(i) ==
    /\ serve[i] = "scheduled"
    /\ serve' = [serve EXCEPT ![i] = IF inShutdown[i] THEN "exited" ELSE "checked"]
    /\ UNCHANGED <<defaultRegistry, newPc, registry, bindAddr, inShutdown,
                   metricVars, call, ghostVars, scrapeVars, extHeld, auxVars>>

\* net.Listen("tcp", addr): fails when the address is taken; the error is
\* ListenAndServe's result, which the goroutine drops (prom.go:115).
ServeListen(i) ==
    /\ serve[i] = "checked"
    /\ serve' = [serve EXCEPT ![i] = IF Held(bindAddr[i]) THEN "binderr" ELSE "bound"]
    /\ UNCHANGED <<defaultRegistry, newPc, registry, bindAddr, inShutdown,
                   metricVars, call, ghostVars, scrapeVars, extHeld, auxVars>>

\* Serve(ln): when the server started shutting down meanwhile the listener
\* is closed and Serve returns; else the listener is tracked and the accept
\* loop runs.
ServeTrack(i) ==
    /\ serve[i] = "bound"
    /\ serve' = [serve EXCEPT ![i] = IF inShutdown[i] THEN "exited" ELSE "serving"]
    /\ UNCHANGED <<defaultRegistry, newPc, registry, bindAddr, inShutdown,
                   metricVars, call, ghostVars, scrapeVars, extHeld, auxVars>>

\* ------------------------------------------------- PrometheusMetrics.Close
\* prometheus.Unregister(collector named name) on the default registry: the
\* registry afterwards, and the names, of those in names, for which the call
\* returns false because no such collector is registered there.
Unregister(reg, name) == reg \ {name}
NotRegistered(reg, names) == { n \in names : n \notin reg }

\* prom.go:124-125, on a handle a construction returned.  The results of the
\* Unregister calls are dropped by Close; the model keeps them beside the
\* call.
CloseUnregisterBytesIn(c, i) ==
    /\ call[c] = Idle
    /\ newPc[i] = "ok"
    /\ defaultRegistry' =
           Unregister(Unregister(defaultRegistry, request_seconds), request_bytes_in)
    /\ unregFailed' =
           [unregFailed EXCEPT
               ![c] = NotRegistered(defaultRegistry,
                                    {request_seconds, request_bytes_in}) # {}]
    /\ call' = [call EXCEPT
                   ![c] = InCall("Close", i, "bytes_out", NoRec, closeReturned[i] > 0)]
    /\ closeCalls' = [closeCalls EXCEPT ![i] = @ + 1]
    /\ UNCHANGED <<newPc, registry, serverVars, metricVars, closeReturned,
                   observed, nObs, scrapeVars, extHeld, bindURL, active, closeResult>>

\* prom.go:126.
CloseUnregisterBytesOut(c) ==
    /\ call[c].op = "Close" /\ call[c].pc = "bytes_out"
    /\ defaultRegistry' = Unregister(defaultRegistry, request_bytes_out)
    /\ unregFailed' =
           [unregFailed EXCEPT
               ![c] = @ \/ NotRegistered(defaultRegistry, {request_bytes_out}) # {}]
    /\ call' = [call EXCEPT ![c].pc = "fail"]
    /\ UNCHANGED <<newPc, registry, serverVars, metricVars, ghostVars,
                   scrapeVars, extHeld, bindURL, active, closeResult>>

\* prom.go:127.
CloseUnregisterFail(c) ==
    /\ call[c].op = "Close" /\ call[c].pc = "fail"
    /\ defaultRegistry' = Unregister(defaultRegistry, request_fail_count)
    /\ unregFailed' =
           [unregFailed EXCEPT
               ![c] = @ \/ NotRegistered(defaultRegistry, {request_fail_count}) # {}]
    /\ call' = [call EXCEPT ![c].pc = "shutdown"]
    /\ UNCHANGED <<newPc, registry, serverVars, metricVars, ghostVars,
                   scrapeVars, extHeld, bindURL, active, closeResult>>

\* Close returns Shutdown's result, which is nil: closing the listener does
\* not fail here, and context.Background() never expires.
CloseReturn(c) ==
    /\ closeResult' =
           [closeResult EXCEPT ![call[c].inst] = Returned("nil", unregFailed[c])]
    /\ closeReturned' = [closeReturned EXCEPT ![call[c].inst] = @ + 1]
    /\ unregFailed' = [unregFailed EXCEPT ![c] = FALSE]
    /\ call' = [call EXCEPT ![c] = Idle]

\* prom.go:128: Shutdown sets the flag and closes the tracked listener, whose
\* accept loop then ends; it returns at once when no connection has a
\* request in flight, and else goes on to wait for the connections.
CloseShutdown(c) ==
    /\ call[c].op = "Close" /\ call[c].pc = "shutdown"
    /\ inShutdown' = [inShutdown EXCEPT ![call[c].inst] = TRUE]
    /\ serve' = [serve EXCEPT
                    ![call[c].inst] = IF @ = "serving" THEN "exited" ELSE @]
    /\ IF active[call[c].inst] = 0
       THEN CloseReturn(c)
       ELSE /\ call' = [call EXCEPT ![c].pc = "wait"]
            /\ UNCHANGED <<closeReturned, closeVars>>
    /\ UNCHANGED <<defaultRegistry, newPc, registry, bindAddr, metricVars,
                   closeCalls, observed, nObs, scrapeVars, extHeld, bindURL, active>>

\* prom.go:128, Shutdown's wait: it polls until every connection is idle,
\* with no limit, its context being context.Background(); then Close
\* returns.
CloseWait(c) ==
    /\ call[c].op = "Close" /\ call[c].pc = "wait"
    /\ active[call[c].inst] = 0
    /\ CloseReturn(c)
    /\ UNCHANGED <<defaultRegistry, newPc, registry, serverVars, metricVars,
                   closeCalls, observed, nObs, scrapeVars, extHeld, bindURL, active>>

\* ----------------------------------------------- PrometheusMetrics.Observe
\* prom.go:133-134, on a handle a construction returned.  The three
\* (method, url, status) vectors are given the same label values, so the
\* check of them that can fail is this first one.
ObserveBytesIn(c, i, r) ==
    /\ call[c] = Idle
    /\ newPc[i] = "ok"
    /\ IF ValidLabelValues(StatusLabels(r))
       THEN /\ requestBytesInCounter' =
                   [requestBytesInCounter EXCEPT
                       ![i] = CounterAdd(@, StatusLabels(r), Result[r].BytesIn)]
            /\ call' = [call EXCEPT
                           ![c] = InCall("Observe", i, "bytes_out", r, FALSE)]
       ELSE /\ call' = [call EXCEPT ![c] = Panicked(i, r)]
            /\ UNCHANGED requestBytesInCounter
    /\ nObs' = nObs + 1
    /\ UNCHANGED <<defaultRegistry, newPc, registry, serverVars,
                   requestBytesOutCounter, requestSecondsHistogram,
                   requestFailCounter, closeCalls, closeReturned, observed,
                   scrapeVars, extHeld, auxVars>>

\* A faulty second step, for mutation testing: it moves on to the latency
\* step without having added the bytes out.
ObserveBytesOutSkipped(c) ==
    /\ call[c].op = "Observe" /\ call[c].pc = "bytes_out"
    /\ call' = [call EXCEPT ![c].pc = "latency"]
    /\ UNCHANGED <<defaultRegistry, newPc, registry, serverVars, metricVars,
                   ghostVars, scrapeVars, extHeld, auxVars>>
\* prom.go:135.
ObserveBytesOut(c) ==
    /\ call[c].op = "Observe" /\ call[c].pc = "bytes_out"
    /\ requestBytesOutCounter' =
           [requestBytesOutCounter EXCEPT
               ![call[c].inst] =
                   CounterAdd(@, StatusLabels(call[c].rec), Result[call[c].rec].BytesOut)]
    /\ call' = [call EXCEPT ![c].pc = "latency"]
    /\ UNCHANGED <<defaultRegistry, newPc, registry, serverVars,
                   requestBytesInCounter, requestSecondsHistogram,
                   requestFailCounter, ghostVars, scrapeVars, extHeld, auxVars>>

\* prom.go:136.
ObserveLatency(c) ==
    /\ call[c].op = "Observe" /\ call[c].pc = "latency"
    /\ requestSecondsHistogram' =
           [requestSecondsHistogram EXCEPT
               ![call[c].inst] =
                   HistogramObserve(@, StatusLabels(call[c].rec),
                                    Result[call[c].rec].Latency)]
    /\ call' = [call EXCEPT ![c].pc = "fail"]
    /\ UNCHANGED <<defaultRegistry, newPc, registry, serverVars,
                   requestBytesInCounter, requestBytesOutCounter,
                   requestFailCounter, ghostVars, scrapeVars, extHeld, auxVars>>

\* A faulty failure step, for mutation testing: it ignores the test of
\* res.Error.
FailStepAlways(vec, r) == WithLabelValues(vec, FailLabels(r))
\* prom.go:137-139: for a record with an error the failure counter's child is
\* looked up (and so created), and nothing is added to it.
FailStep(vec, r) ==
    IF Result[r].Error # "" THEN WithLabelValues(vec, FailLabels(r)) ELSE vec

\* prom.go:137-140, and the return.
ObserveFail(c) ==
    /\ call[c].op = "Observe" /\ call[c].pc = "fail"
    /\ IF Result[call[c].rec].Error # "" /\ ~ValidLabelValues(FailLabels(call[c].rec))
       THEN /\ call' = [call EXCEPT ![c] = Panicked(call[c].inst, call[c].rec)]
            /\ UNCHANGED <<requestFailCounter, observed>>
       ELSE /\ requestFailCounter' =
                   [requestFailCounter EXCEPT
                       ![call[c].inst] = FailStep(@, call[c].rec)]
            /\ observed' = [observed EXCEPT ![call[c].inst][call[c].rec] = @ + 1]
            /\ call' = [call EXCEPT ![c] = Idle]
    /\ UNCHANGED <<defaultRegistry, newPc, registry, serverVars,
                   requestBytesInCounter, requestBytesOutCounter,
                   requestSecondsHistogram, closeCalls, closeReturned, nObs,
                   scrapeVars, extHeld, auxVars>>

\* ------------------------------------------------------- http.Get(address)
\* The instance whose accept loop runs on the address answers 200 with the
\* rendering of its registry; with no accept loop of this process on the
\* address the request gets no response from it.
Scrape(a) ==
    /\ IF \E i \in Insts : bindAddr[i] = a /\ serve[i] = "serving"
       THEN LET i == CHOOSE j \in Insts : bindAddr[j] = a /\ serve[j] = "serving"
            IN lastScrape' = [status |-> 200, inst |-> i, body |-> Render(i)]
       ELSE lastScrape' = NoResponse
    /\ UNCHANGED <<defaultRegistry, newPc, registry, serverVars, metricVars,
                   call, ghostVars, extHeld, auxVars>>

\* ------------------------------------------------------- a scraping client
\* A client connects to the accept loop of instance i and starts a request:
\* the connection is active from the first byte of the request until the
\* response is written.  The server sets no read or write timeout
\* (prom.go:109-112), so it is the client that decides when that is.
ClientRequest(i) ==
    /\ serve[i] = "serving"
    /\ active[i] < MaxConn
    /\ active' = [active EXCEPT ![i] = @ + 1]
    /\ UNCHANGED <<defaultRegistry, newPc, registry, serverVars, metricVars,
                   call, ghostVars, scrapeVars, extHeld, bindURL, closeVars>>

\* The client completes its request and reads the response, or disconnects.
ClientFinish(i) ==
    /\ active[i] > 0
    /\ active' = [active EXCEPT ![i] = @ - 1]
    /\ UNCHANGED <<defaultRegistry, newPc, registry, serverVars, metricVars,
                   call, ghostVars, scrapeVars, extHeld, bindURL, closeVars>>

\* ---------------------------------------------------------- specifications
\* The lifecycle under concurrent callers: any caller may construct an
\* instance, close a handle it was given, and GET the endpoint.
Next ==
    \/ \E c \in Callers, i \in Insts, u \in BindURLs : NewRegisterBytesIn(c, i, u)
    \/ \E c \in Callers : NewRegisterBytesOut(c)
    \/ \E c \in Callers : NewRegisterFail(c)
    \/ \E c \in Callers : NewServe(c)
    \/ \E i \in Insts : ServeCheck(i)
    \/ \E i \in Insts : ServeListen(i)
    \/ \E i \in Insts : ServeTrack(i)
    \/ \E c \in Callers, i \in Insts :
           closeCalls[i] < MaxClose /\ CloseUnregisterBytesIn(c, i)
    \/ \E c \in Callers : CloseUnregisterBytesOut(c)
    \/ \E c \in Callers : CloseUnregisterFail(c)
    \/ \E c \in Callers : CloseShutdown(c)
    \/ \E a \in Addrs : Scrape(a)

Spec == Init /\ [][Next]_vars

\* The lifecycle under one caller: the calls are made one after the other,
\* each starting when the one before has returned; only the serving
\* goroutines run beside the caller.
NextSeq ==
    \/ \E i \in Insts, u \in BindURLs : NewRegisterBytesIn(1, i, u)
    \/ NewRegisterBytesOut(1)
    \/ NewRegisterFail(1)
    \/ NewServe(1)
    \/ \E i \in Insts : ServeCheck(i)
    \/ \E i \in Insts : ServeListen(i)
    \/ \E i \in Insts : ServeTrack(i)
    \/ \E i \in Insts : closeCalls[i] < MaxClose /\ CloseUnregisterBytesIn(1, i)
    \/ CloseUnregisterBytesOut(1)
    \/ CloseUnregisterFail(1)
    \/ CloseShutdown(1)
    \/ \E a \in Addrs : Scrape(a)

SpecSeq == Init /\ [][NextSeq]_vars

\* Recording: one instance is constructed, then the callers are producers
\* that call Observe on it concurrently while the endpoint is scraped.
NextObserve ==
    \/ \E c \in Callers, u \in BindURLs : NewRegisterBytesIn(c, 1, u)
    \/ \E c \in Callers : NewRegisterBytesOut(c)
    \/ \E c \in Callers : NewRegisterFail(c)
    \/ \E c \in Callers : NewServe(c)
    \/ \E i \in Insts : ServeCheck(i)
    \/ \E i \in Insts : ServeListen(i)
    \/ \E i \in Insts : ServeTrack(i)
    \/ \E c \in Callers, i \in Insts, r \in Records :
           nObs < MaxObs /\ ObserveBytesIn(c, i, r)
    \/ \E c \in Callers : ObserveBytesOut(c)
    \/ \E c \in Callers : ObserveLatency(c)
    \/ \E c \in Callers : ObserveFail(c)
    \/ \E a \in Addrs : Scrape(a)

SpecObserve == Init /\ [][NextObserve]_vars

\* One handle in use: one instance is constructed, and then the callers call
\* Observe and Close on its handle in any order and concurrently, with
\* records one of whose strings may be invalid UTF-8, while a client of the
\* endpoint opens connections and ends them when it pleases.
HandleRecords == {Success, Failure} \cup GarbledRecords
NextHandle ==
    \/ \E c \in Callers, u \in BindURLs : NewRegisterBytesIn(c, 1, u)
    \/ \E c \in Callers : NewRegisterBytesOut(c)
    \/ \E c \in Callers : NewRegisterFail(c)
    \/ \E c \in Callers : NewServe(c)
    \/ \E i \in Insts : ServeCheck(i)
    \/ \E i \in Insts : ServeListen(i)
    \/ \E i \in Insts : ServeTrack(i)
    \/ \E c \in Callers, i \in Insts :
           closeCalls[i] < MaxClose /\ CloseUnregisterBytesIn(c, i)
    \/ \E c \in Callers : CloseUnregisterBytesOut(c)
    \/ \E c \in Callers : CloseUnregisterFail(c)
    \/ \E c \in Callers : CloseShutdown(c)
    \/ \E c \in Callers : CloseWait(c)
    \/ \E c \in Callers, i \in Insts, r \in HandleRecords :
           nObs < MaxObs /\ ObserveBytesIn(c, i, r)
    \/ \E c \in Callers : ObserveBytesOut(c)
    \/ \E c \in Callers : ObserveLatency(c)
    \/ \E c \in Callers : ObserveFail(c)
    \/ \E i \in Insts : ClientRequest(i)
    \/ \E i \in Insts : ClientFinish(i)

SpecHandle == Init /\ [][NextHandle]_vars

\* Construction from any argument: one caller constructs one instance with a
\* bindURL out of every short string over the characters that matter to the
\* parse (a host character, the colon, a digit, a path character, a newline)
\* and a few longer ones: the default, a port above 65535, a port above the
\* largest int, and two addresses on two lines.
URLChars == {"h", ":", "9", "/", "\n"}
RECURSIVE StringsUpTo(_)
StringsUpTo(n) ==
    IF n = 0 THEN {<<>>}
    ELSE LET shorter == StringsUpTo(n - 1)
         IN shorter \cup { Append(u, ch) : u \in shorter, ch \in URLChars }
HighPortURL == <<"h", ":", "9", "9", "9", "9", "9">>
HugePortURL == <<"h", ":">> \o MaxInt \o <<"9">>
TwoLinesURL == <<"h", ":", "9", "\n", "h", ":", "9">>
AnyURLs ==
    StringsUpTo(MaxURLLen) \cup {DefaultURL, HighPortURL, HugePortURL, TwoLinesURL}
NextParse ==
    \/ \E u \in AnyURLs : NewRegisterBytesIn(1, 1, u)
    \/ NewRegisterBytesOut(1)
    \/ NewRegisterFail(1)
    \/ NewServe(1)
    \/ \E i \in Insts : ServeCheck(i)
    \/ \E i \in Insts : ServeListen(i)
    \/ \E i \in Insts : ServeTrack(i)

SpecParse == Init /\ [][NextParse]_vars

\* Recording by one producer, of records that differ in each position of the
\* label tuples: one instance is constructed and the caller calls Observe on
\* it, one call after the other.
NextFrame ==
    \/ \E u \in BindURLs : NewRegisterBytesIn(1, 1, u)
    \/ NewRegisterBytesOut(1)
    \/ NewRegisterFail(1)
    \/ NewServe(1)
    \/ \E i \in Insts : ServeCheck(i)
    \/ \E i \in Insts : ServeListen(i)
    \/ \E i \in Insts : ServeTrack(i)
    \/ \E i \in Insts, r \in ValidRecords : nObs < MaxObs /\ ObserveBytesIn(1, i, r)
    \/ ObserveBytesOut(1)
    \/ ObserveLatency(1)
    \/ ObserveFail(1)

SpecFrame == Init /\ [][NextFrame]_vars

\* ------------------------------------------------------------------ claims
ValueAt(vec, t) == IF t \in DOMAIN vec THEN vec[t] ELSE 0
StatusOf == [r \in Records |-> StatusLabels(r)]
StatusTuples == { StatusOf[r] : r \in Records }
WithStatus(t) == { r \in Records : StatusOf[r] = t }
Failing == { r \in Records : Result[r].Error # "" }

\* Observe calls on instance i that have returned, over the records in S,
\* each weighted by its bytes in, its bytes out, or 1.
Weight(r, w) ==
    IF w = "in" THEN Result[r].BytesIn
    ELSE IF w = "out" THEN Result[r].BytesOut ELSE 1
RECURSIVE SumReturned(_, _, _)
SumReturned(S, i, w) ==
    IF S = {} THEN 0
    ELSE LET r == CHOOSE x \in S : TRUE
         IN observed[i][r] * Weight(r, w) + SumReturned(S \ {r}, i, w)

\* No Observe call on instance i is in progress.
Quiescent(i) == \A c \in Callers : ~(call[c].op = "Observe" /\ call[c].inst = i)

\* Observe calls on instance i, for label tuple t, that have executed
\* prom.go:136 and not returned yet.
PastLatency(i, t) ==
    Cardinality({ c \in Callers :
                    /\ call[c].op = "Observe" /\ call[c].inst = i
                    /\ call[c].pc = "fail" /\ StatusOf[call[c].rec] = t })
\* Observe calls on instance i, for label tuple t, in progress.
InProgress(i, t) ==
    Cardinality({ c \in Callers :
                    /\ call[c].op = "Observe" /\ call[c].inst = i
                    /\ StatusOf[call[c].rec] = t })

\* C1: once every Observe call on an instance has returned, the value of
\* request_bytes_in (request_bytes_out) for each label tuple is the sum of
\* BytesIn (BytesOut) over the records observed with that tuple, and there is
\* a series for no other tuple.
C1_ExactSums ==
    \A i \in Insts :
        Quiescent(i) =>
            /\ DOMAIN requestBytesInCounter[i] \subseteq StatusTuples
            /\ DOMAIN requestBytesOutCounter[i] \subseteq StatusTuples
            /\ \A t \in StatusTuples :
                   /\ ValueAt(requestBytesInCounter[i], t)
                          = SumReturned(WithStatus(t), i, "in")
                   /\ ValueAt(requestBytesOutCounter[i], t)
                          = SumReturned(WithStatus(t), i, "out")

\* Two producers' worth of calls, of two different records, have returned
\* and fed one series.
C1_Witness ==
    /\ Quiescent(1)
    /\ observed[1][Success] = 2 /\ observed[1][Slow] = 1
    /\ ValueAt(requestBytesInCounter[1], StatusLabels(Success)) = 2020
    /\ ValueAt(requestBytesOutCounter[1], StatusLabels(Success)) = 103

\* C2: the value of request_fail_count for (method, url, error message) is
\* the number of returned Observe calls of records with that error.
C2_FailCounted ==
    \A i \in Insts : \A r \in Failing :
        ValueAt(requestFailCounter[i], FailLabels(r))
            = SumReturned({ x \in Failing : FailLabels(x) = FailLabels(r) }, i, "n")

\* C3: request_fail_count has a series exactly for the error records whose
\* Observe has returned, so none while only records without error were
\* observed; and a scrape taken then shows no request_fail_count family.
C3_NoFailSeries ==
    /\ \A i \in Insts :
           DOMAIN requestFailCounter[i]
               = { FailLabels(r) : r \in { x \in Failing : observed[i][x] > 0 } }
    /\ lastScrape.status = 200 =>
           \/ \E r \in Failing : observed[lastScrape.inst][r] > 0
           \/ request_fail_count \notin FamiliesIn(lastScrape.body)

\* Records without error were observed and the scrape shows the byte
\* counters and no request_fail_count.
C3_Witness ==
    /\ lastScrape.status = 200
    /\ observed[lastScrape.inst][Success] > 0
    /\ \A r \in Failing : observed[lastScrape.inst][r] = 0
    /\ request_bytes_in \in FamiliesIn(lastScrape.body)
    /\ request_fail_count \notin FamiliesIn(lastScrape.body)

\* C4: for every series of request_seconds the exposed bucket counts are
\* cumulative (each is the number of observations at or below its bound, so
\* none is below the count of a bucket with a smaller bound), the +Inf bucket
\* is the observation count, and the observation count is the number of
\* Observe calls for the tuple that have executed prom.go:136, which lies
\* between the calls returned and the calls started.
AtOrBelow(t, bound) == { r \in WithStatus(t) : Result[r].Latency <= bound }
C4_HistogramCounts ==
    \A i \in Insts :
        /\ DOMAIN requestSecondsHistogram[i] \subseteq StatusTuples
        /\ \A t \in StatusTuples :
               \A returned \in {SumReturned(WithStatus(t), i, "n")} :
                   IF t \in DOMAIN requestSecondsHistogram[i]
                   THEN \A w \in {HistogramWrite(requestSecondsHistogram[i][t])} :
                       /\ \A b1, b2 \in 1..Len(Buckets) :
                              b1 <= b2 => w.buckets[b1] <= w.buckets[b2]
                       /\ \A b \in 1..Len(Buckets) : w.buckets[b] <= w.inf
                       /\ w.inf = w.count
                       /\ w.count = returned + PastLatency(i, t)
                       /\ returned <= w.count
                       /\ w.count <= returned + InProgress(i, t)
                       /\ Quiescent(i) =>
                              \A b \in 1..Len(Buckets) :
                                  w.buckets[b]
                                      = SumReturned(AtOrBelow(t, Buckets[b]), i, "n")
                   ELSE returned + PastLatency(i, t) = 0

\* One series holds an observation inside the buckets and one above every
\* bound.
C4_Witness ==
    /\ StatusLabels(Success) \in DOMAIN requestSecondsHistogram[1]
    /\ LET w == HistogramWrite(requestSecondsHistogram[1][StatusLabels(Success)])
       IN w.buckets[1] = 1 /\ w.buckets[Len(Buckets)] = 1 /\ w.inf = 2

\* A handle is live from the return of its construction to the first call
\* of Close on it.
Live(i) == newPc[i] = "ok" /\ closeCalls[i] = 0
\* The construction of instance i has started.
Attempted(i) == newPc[i] # "none"
\* The calls so far were constructions each followed by one Close: no
\* construction found the names taken, and no handle was closed twice.
Alternating ==
    /\ \A i \in Insts : newPc[i] # "panic"
    /\ \A i \in Insts : closeCalls[i] <= 1

\* C5: while the caller repeats (construct on the address, Close), a handle
\* whose Close has returned has no listening socket on the address, then or
\* later, and no construction's bind fails on an address no other process
\* holds.
C5_ReleasedAtClose ==
    Alternating =>
        /\ \A i \in Insts : closeReturned[i] > 0 => ~Listening(i)
        /\ extHeld = {} => \A i \in Insts : serve[i] # "binderr"

\* C6: a construction started while an earlier one on the same address is
\* under way or live ends with an error returned to its caller, and leaves
\* no instrument registered and no listening socket.
C6_SecondFailsClean ==
    \A i, j \in Insts :
        ( /\ j < i /\ Attempted(i)
          /\ bindAddr[i] = bindAddr[j]
          /\ newPc[j] \in {"bytes_out", "fail", "srv", "ok"}
          /\ closeCalls[j] = 0 )
        => /\ newPc[i] = "error"
           /\ registry[i] = {}
           /\ ~Listening(i)

\* C7: no construction has returned a handle and a nil error while its bind
\* on the address has failed.
C7_BindErrorReturned ==
    \A i \in Insts : newPc[i] = "ok" => serve[i] # "binderr"

\* C8: whenever a construction has returned a handle and Close has not been
\* called on it, its listener is bound or serving.
C8_BoundAtReturn ==
    \A i \in Insts : Live(i) => serve[i] \in {"bound", "serving"}

\* C9: no two handles are live together.
C9_OneLive ==
    \A i, j \in Insts : i # j => ~(Live(i) /\ Live(j))

\* C10: a step of a Close call that started after an earlier Close on the
\* same handle had returned changes nothing of the program's state (Close
\* has no already-closed result: it returns Shutdown's nil).
SecondCloseStep(c) ==
    /\ call'[c] # call[c]
    /\ \/ call[c].op = "Close" /\ call[c].again
       \/ call'[c].op = "Close" /\ call'[c].again
C10_SecondCloseNoOp ==
    [][\A c \in Callers :
           SecondCloseStep(c) =>
               UNCHANGED <<defaultRegistry, newPc, registry, serverVars, metricVars>>]_vars

\* The three counters, which promauto registers in the default registry.
CounterNames == {request_bytes_in, request_bytes_out, request_fail_count}
\* The four instruments of an instance.
InstrumentNames == {request_seconds} \cup CounterNames

\* C11: once a Close on a handle has returned, the handle's own registry holds
\* none of the four instruments, and unless a later instance has registered
\* them the default registry holds none either.
C11_NoneRegisteredAfterClose ==
    \A i \in Insts :
        closeReturned[i] > 0 =>
            /\ registry[i] \cap InstrumentNames = {}
            /\ (\A j \in Insts : j # i => registry[j] = {})
                   => defaultRegistry \cap InstrumentNames = {}

\* C18: a step of a Close call on a handle that an earlier Close had already
\* closed leaves every live instance as it was: the live instance's counters
\* stay in the default registry, and its own registry, its server and its
\* series are unchanged.
C18_StaleCloseSparesLive ==
    [][\A c \in Callers :
           SecondCloseStep(c) =>
               \A j \in Insts :
                   Live(j) =>
                       /\ defaultRegistry \cap CounterNames
                              \subseteq defaultRegistry'
                       /\ registry'[j] = registry[j]
                       /\ serve'[j] = serve[j]
                       /\ inShutdown'[j] = inShutdown[j]
                       /\ requestBytesInCounter'[j] = requestBytesInCounter[j]
                       /\ requestBytesOutCounter'[j] = requestBytesOutCounter[j]
                       /\ requestSecondsHistogram'[j] = requestSecondsHistogram[j]
                       /\ requestFailCounter'[j] = requestFailCounter[j]]_vars

\* The Observe calls of record r on instance i that are in progress at one
\* of the steps in pcs: a call at step p has executed every step before p.
CallsAt(i, r, pcs) ==
    Cardinality({ c \in Callers :
                    /\ call[c].op = "Observe" /\ call[c].inst = i
                    /\ call[c].rec = r /\ call[c].pc \in pcs })
\* The updates applied so far to a series fed by the records in S: those of
\* the calls returned and those of the calls in progress that are past the
\* update, each weighted by its bytes in, its bytes out, or 1.
PastBytesIn == {"bytes_out", "latency", "fail"}
PastBytesOut == {"latency", "fail"}
PastLatencyStep == {"fail"}
RECURSIVE SumApplied(_, _, _, _)
SumApplied(S, i, pcs, w) ==
    IF S = {} THEN 0
    ELSE LET r == CHOOSE x \in S : TRUE
         IN (observed[i][r] + CallsAt(i, r, pcs)) * Weight(r, w)
            + SumApplied(S \ {r}, i, pcs, w)
Applied(i, t, pcs, w) == SumApplied(WithStatus(t), i, pcs, w)

\* C19: in every state and for every label tuple, request_bytes_in holds the
\* bytes of every Observe call started, request_bytes_out those of the calls
\* past prom.go:135 and request_seconds counts the calls past prom.go:136; so
\* the latency observations recorded are at most the bytes_out updates
\* applied, which are at most the bytes_in updates applied, and a series of
\* request_seconds exists only where one of request_bytes_out does, and that
\* only where one of request_bytes_in does.  A handle no construction has
\* returned has no series at all.
C19_StepOrder ==
    \A i \in Insts :
      IF newPc[i] # "ok"
      THEN /\ requestBytesInCounter[i] = EmptyVec
           /\ requestBytesOutCounter[i] = EmptyVec
           /\ requestSecondsHistogram[i] = EmptyVec
      ELSE
        \A t \in StatusTuples :
        \A nIn \in {Applied(i, t, PastBytesIn, "n")} :
        \A nOut \in {Applied(i, t, PastBytesOut, "n")} :
        \A nLatency \in {Applied(i, t, PastLatencyStep, "n")} :
            /\ ValueAt(requestBytesInCounter[i], t) = Applied(i, t, PastBytesIn, "in")
            /\ ValueAt(requestBytesOutCounter[i], t) = Applied(i, t, PastBytesOut, "out")
            /\ IF t \in DOMAIN requestSecondsHistogram[i]
               THEN requestSecondsHistogram[i][t].count = nLatency
               ELSE nLatency = 0
            /\ nLatency <= nOut
            /\ nOut <= nIn
            /\ t \in DOMAIN requestBytesInCounter[i] <=> nIn > 0
            /\ t \in DOMAIN requestBytesOutCounter[i] <=> nOut > 0
            /\ t \in DOMAIN requestSecondsHistogram[i]
                   => t \in DOMAIN requestBytesOutCounter[i]
            /\ t \in DOMAIN requestBytesOutCounter[i]
                   => t \in DOMAIN requestBytesInCounter[i]

\* Two calls for one tuple are under way, one past its latency step and one
\* that has added its bytes in only: the tuple has one latency observation,
\* one bytes_out update and two bytes_in updates.
C19_Witness ==
    /\ call[1].op = "Observe" /\ call[1].rec = Success /\ call[1].pc = "fail"
    /\ call[2].op = "Observe" /\ call[2].rec = Slow /\ call[2].pc = "bytes_out"
    /\ observed[1][Success] = 0 /\ observed[1][Slow] = 0
    /\ requestSecondsHistogram[1][StatusLabels(Success)].count = 1
    /\ requestBytesOutCounter[1][StatusLabels(Success)] = 50
    /\ requestBytesInCounter[1][StatusLabels(Success)] = 1020

\* The decimal form of the status codes of the records, written out, and the
\* label tuples a record is expected to be filed under.
Decimal(n) == CASE n = 0 -> "0" [] n = 200 -> "200" [] n = 500 -> "500"
StatusKey(r) == <<Result[r].Method, Result[r].URL, Decimal(Result[r].Code)>>
FailKey(r) == <<Result[r].Method, Result[r].URL, Result[r].Error>>
\* Between the vectors old and new, every series other than the one of
\* instance i with tuple key is the same: none appeared, none went, and each
\* kept its value.
OnlySeries(old, new, i, key) ==
    \A j \in Insts :
        \A t \in DOMAIN old[j] \cup DOMAIN new[j] :
            (j # i \/ t # key) =>
                /\ t \in DOMAIN old[j] /\ t \in DOMAIN new[j]
                /\ new[j][t] = old[j][t]
\* Caller c takes a step of an Observe call.
ObserveStep(c) ==
    /\ call'[c] # call[c]
    /\ call[c].op = "Observe" \/ call'[c].op = "Observe"

\* C17: a step of an Observe call of record r on instance i changes, in the
\* three status vectors, no series but the one of the tuple (method, url,
\* decimal code) of r, and in request_fail_count none but the one of (method,
\* url, error) of r; and it does feed r's own series: the step at
\* prom.go:134 adds r's bytes in to it, the one at prom.go:135 its bytes out,
\* the one at prom.go:136 one observation, and the one at prom.go:138 makes
\* the failure series exist.  So records with equal tuples feed one series
\* and records whose tuples differ in any position feed different ones.
C17_OwnSeriesOnly ==
    [][\A c \in Callers :
           ObserveStep(c) =>
               LET from == call[c]
                   r == IF from.op = "Observe" THEN from.rec ELSE call'[c].rec
                   i == IF from.op = "Observe" THEN from.inst ELSE call'[c].inst
                   key == StatusKey(r)
               IN /\ OnlySeries(requestBytesInCounter, requestBytesInCounter', i, key)
                  /\ OnlySeries(requestBytesOutCounter, requestBytesOutCounter', i, key)
                  /\ OnlySeries(requestSecondsHistogram, requestSecondsHistogram', i, key)
                  /\ OnlySeries(requestFailCounter, requestFailCounter', i, FailKey(r))
                  /\ from.op # "Observe" =>
                         /\ key \in DOMAIN requestBytesInCounter'[i]
                         /\ requestBytesInCounter'[i][key]
                                = ValueAt(requestBytesInCounter[i], key)
                                  + Result[r].BytesIn
                  /\ from.pc = "bytes_out" =>
                         /\ key \in DOMAIN requestBytesOutCounter'[i]
                         /\ requestBytesOutCounter'[i][key]
                                = ValueAt(requestBytesOutCounter[i], key)
                                  + Result[r].BytesOut
                  /\ from.pc = "latency" =>
                         /\ key \in DOMAIN requestSecondsHistogram'[i]
                         /\ requestSecondsHistogram'[i][key].count
                                = (IF key \in DOMAIN requestSecondsHistogram[i]
                                   THEN requestSecondsHistogram[i][key].count
                                   ELSE 0) + 1
                  /\ from.pc = "fail" /\ Result[r].Error # "" =>
                         FailKey(r) \in DOMAIN requestFailCounter'[i]]_vars

\* Success and Slow, whose tuples are equal, have fed one series, and Post,
\* whose tuple differs from theirs in the method, another.
C17_Witness ==
    /\ observed[1][Success] = 1 /\ observed[1][Slow] = 1 /\ observed[1][Post] = 1
    /\ DOMAIN requestBytesInCounter[1] = {StatusKey(Success), StatusKey(Post)}
    /\ requestBytesInCounter[1][StatusKey(Success)] = 1020
    /\ requestBytesInCounter[1][StatusKey(Post)] = 1000
    /\ requestSecondsHistogram[1][StatusKey(Success)].count = 2
    /\ requestSecondsHistogram[1][StatusKey(Post)].count = 1

\* C15: a Close call that has returned a nil error had no failed cleanup
\* step: each of its Unregister calls found its instrument and removed it,
\* and the server was shut down.
C15_FailureReported ==
    \A i \in Insts :
        closeResult[i].err = "nil" =>
            /\ ~closeResult[i].failed
            /\ inShutdown[i]

\* A bind address is well-formed when it is a non-empty host (of whatever
\* characters), a colon, and one or more digits that make a port number of
\* at most 65535, with nothing after them.
MaxPort == <<"6", "5", "5", "3", "5">>
WellFormed(u) ==
    \E k \in 2..(Len(u) - 1) :
        /\ u[k] = ":"
        /\ \A m \in (k + 1)..Len(u) : IsDigit(u[m])
        /\ AtMost(SubSeq(u, k + 1, Len(u)), MaxPort)

\* C16: a construction called with a bind address that is not well-formed
\* has returned an error, registered no instrument and started no listener.
C16_MalformedRejected ==
    \A i \in Insts :
        Attempted(i) /\ ~WellFormed(bindURL[i]) =>
            /\ newPc[i] = "error"
            /\ registry[i] = {}
            /\ serve[i] = "none"

\* C12: a step of an Observe call taken after a Close on the handle has
\* returned changes no series of any instrument: none appears and none
\* changes its value.
C12_ClosedRejectsObserve ==
    [][\A c \in Callers :
           ( /\ ObserveStep(c)
             /\ call[c].op = "Observe" => closeReturned[call[c].inst] > 0
             /\ call[c].op # "Observe" => closeReturned[call'[c].inst] > 0 )
           => UNCHANGED metricVars]_vars

\* C13: a Close call that is waiting in Shutdown can return: its return is
\* enabled whatever the clients' connections do.
C13_CloseReturnsUnaided ==
    \A c \in Callers :
        call[c].op = "Close" /\ call[c].pc = "wait" => ENABLED CloseWait(c)

\* C14: no Observe call has ended in a panic; a call under way can always
\* take its next step; and on a handle a construction returned, whatever
\* the state of its listener and whether closed or not, an idle caller can
\* start an Observe of any record.
C14_ObserveCompletes ==
    \A c \in Callers :
        /\ call[c].op # "Panicked"
        /\ call[c].op = "Observe" =>
               ENABLED (ObserveBytesOut(c) \/ ObserveLatency(c) \/ ObserveFail(c))
        /\ call[c] = Idle =>
               \A i \in Insts : \A r \in AllRecords :
                   newPc[i] = "ok" => ENABLED ObserveBytesIn(c, i, r)

====
